---------------------------- MODULE Spec2Model ----------------------------
(***************************************************************************)
(* A model of go-tuf's local store (local_store.go): the durable           *)
(* fileSystemStore with its three directories keys/, repository/ and       *)
(* staged/, and the Commit algorithm that publishes the staged tree,       *)
(* garbage-collects stale targets and clears staging.                      *)
(*                                                                         *)
(* Paths are strings, and the string operations the code relies on         *)
(* (strings.HasPrefix, strings.SplitN, filepath.Dir/Base/Join, the lexical *)
(* order of filepath.Walk and ioutil.ReadDir) are computed character by    *)
(* character, not assumed.  A tree of files is a function from the         *)
(* relative paths of its regular files to their contents; a content is a   *)
(* number, 0 being a file that was created and did not get its bytes.      *)
(***************************************************************************)
EXTENDS Naturals, Sequences, FiniteSets, TLC

VARIABLES
    staged,     \* staged/      : relative path -> content of each regular file
    stagedDir,  \* whether staged/ (and staged/targets) exists
    repo,       \* repository/  : relative path -> content of each regular file
    repoDir,    \* whether repository/ exists
    keys,       \* keys/        : file name -> encoded key
    keysDir,    \* whether keys/ exists
    scope,      \* the names, key entries and hash values this run works with
    faults,     \* how many Commits have met an I/O error
    last        \* the last operation: its arguments, its result, what it did

vars == <<staged, stagedDir, repo, repoDir, keys, keysDir, scope, faults, last>>

-----------------------------------------------------------------------------
(* Bounds *)

\* How many distinct objects one run works with: file names, key entries,
\* and hash values and file contents beyond the first.
MaxScope == 2

\* How many Commits of one run meet an I/O error.
MaxFaults == 1

-----------------------------------------------------------------------------
(* Strings *)

\* A string is a sequence of characters: Len, SubSeq and \o apply to it.

\* The characters in use, in byte order.
Chars ==
    << "-", ".", "/", "0", "1", "2", "3", "4", "5", "6", "7", "8", "9",
       "A", "B", "C", "D", "E", "F", "G", "H", "I", "J", "K", "L", "M",
       "N", "O", "P", "Q", "R", "S", "T", "U", "V", "W", "X", "Y", "Z",
       "a", "b", "c", "d", "e", "f", "g", "h", "i", "j", "k", "l", "m",
       "n", "o", "p", "q", "r", "s", "t", "u", "v", "w", "x", "y", "z" >>

CharSet == {Chars[i] : i \in DOMAIN Chars}

Code == [c \in CharSet |-> CHOOSE i \in DOMAIN Chars : Chars[i] = c]

CharAt(s, i) == SubSeq(s, i, i)

\* strings.HasPrefix
HasPrefix(s, prefix) ==
    /\ Len(prefix) <= Len(s)
    /\ SubSeq(s, 1, Len(prefix)) = prefix

\* strings.Index of a one-character separator (0: absent)
RECURSIVE IndexFrom(_, _, _)
IndexFrom(s, c, i) ==
    IF i > Len(s) THEN 0
    ELSE IF CharAt(s, i) = c THEN i
    ELSE IndexFrom(s, c, i + 1)

IndexOf(s, c) == IndexFrom(s, c, 1)

\* strings.LastIndex of a one-character separator (0: absent)
RECURSIVE LastIndexFrom(_, _, _)
LastIndexFrom(s, c, i) ==
    IF i = 0 THEN 0
    ELSE IF CharAt(s, i) = c THEN i
    ELSE LastIndexFrom(s, c, i - 1)

LastIndexOf(s, c) == LastIndexFrom(s, c, Len(s))

\* strings.SplitN(s, sep, 2): one element when sep does not occur in s
SplitN2(s, sep) ==
    LET i == IndexOf(s, sep)
    IN  IF i = 0 THEN << s >>
        ELSE << SubSeq(s, 1, i - 1), SubSeq(s, i + 1, Len(s)) >>

\* filepath.Base of a relative path that does not end in a separator
Base(path) == SubSeq(path, LastIndexOf(path, "/") + 1, Len(path))

\* filepath.Dir of a relative path: "." when it has no directory part
Dir(path) ==
    LET i == LastIndexOf(path, "/")
    IN  IF i = 0 THEN "." ELSE SubSeq(path, 1, i - 1)

\* filepath.Join(dir, name), which cleans its result: a leading "." element
\* and an empty element vanish
Join(dir, name) ==
    IF name = "" THEN dir
    ELSE IF dir = "." \/ dir = "" THEN name
    ELSE dir \o "/" \o name

\* The byte order of strings (sort.Strings), from position i on
RECURSIVE StrLessFrom(_, _, _)
StrLessFrom(s, t, i) ==
    IF i > Len(t) THEN FALSE
    ELSE IF i > Len(s) THEN TRUE
    ELSE IF CharAt(s, i) # CharAt(t, i)
         THEN Code[CharAt(s, i)] < Code[CharAt(t, i)]
    ELSE StrLessFrom(s, t, i + 1)

StrLess(s, t) == StrLessFrom(s, t, 1)

\* The order in which filepath.Walk meets two files: directory by directory,
\* the entries of each directory in byte order.  This is the byte order of the
\* paths with the separator below every other character.
RECURSIVE WalkLessFrom(_, _, _)
WalkLessFrom(p, q, i) ==
    IF i > Len(q) THEN FALSE
    ELSE IF i > Len(p) THEN TRUE
    ELSE IF CharAt(p, i) # CharAt(q, i)
         THEN \/ CharAt(p, i) = "/"
              \/ CharAt(q, i) # "/" /\ Code[CharAt(p, i)] < Code[CharAt(q, i)]
    ELSE WalkLessFrom(p, q, i + 1)

WalkLess(p, q) == WalkLessFrom(p, q, 1)

-----------------------------------------------------------------------------
(* Names *)

root_json      == "root.json"
targets_json   == "targets.json"
snapshot_json  == "snapshot.json"
timestamp_json == "timestamp.json"

\* A manifest that is not a top-level one (a delegated role's).
role_json      == "role.json"

targetsDirName == "targets"

\* Target paths, relative to the targets directory: a name with an extension,
\* a name without any ".", and a name with nothing after its first ".".
foo_txt == "foo.txt"
README  == "README"
foo_dot == "foo."

\* The recognized top-level manifest names GetMeta ranges over.
topLevelManifests == << root_json, targets_json, snapshot_json, timestamp_json >>

MetaNames   == {root_json, targets_json, timestamp_json, role_json}
TargetNames == {foo_txt, README, foo_dot}

\* The staged-relative path of a target.
TargetPath(t) == Join(targetsDirName, t)

Names == MetaNames \cup {TargetPath(t) : t \in TargetNames}

\* Hash values (hex strings); scope always holds the first.
H1 == "0a"
H2 == "ff"
HashVals == {H1, H2}

\* Roles and keys (a key is known by its ID, a hex string).
role_root  == "root"
role_rootx == "rootx"
Roles == {role_root, role_rootx}
K1 == "1b"
K2 == "2c"
KeyIDs == {K1, K2}
KeyEntries == Roles \X KeyIDs

\* The contents a caller writes: 1, 2, ...
Data == 1 .. (MaxScope + 1)

\* A tree with no file.
NoFiles == [p \in {} |-> 0]

Put(tree, path, content) ==
    [p \in DOMAIN tree \cup {path} |-> IF p = path THEN content ELSE tree[p]]

Drop(tree, paths) == [p \in DOMAIN tree \ paths |-> tree[p]]

\* hashedPath with a plausible bug: the hash appended to the file name
\* instead of prefixed.
hashedPath_suffix(path, hash) == Join(Dir(path), Base(path) \o "." \o hash)

\* The hashed path of hashedPaths (line 150): <dir>/<hash>.<base>
hashedPath(path, hash) == Join(Dir(path), hash \o "." \o Base(path))

\* hashedPath, tabulated.
HashedPath ==
    [e \in Names \X HashVals |-> hashedPath(e[1], e[2])] @@ NoFiles

\* Every path a file of the staged or the repository tree can have.
AllPaths == Names \cup {HashedPath[e] : e \in Names \X HashVals}

\* The place of each path in Walk's order (WalkLess, tabulated).
WalkRank ==
    [p \in AllPaths |-> Cardinality({q \in AllPaths : WalkLess(q, p)})] @@ NoFiles

\* The files of a set in the order filepath.Walk meets them.
RECURSIVE WalkOrder(_)
WalkOrder(files) ==
    IF files = {} THEN << >>
    ELSE LET first == CHOOSE p \in files :
                        \A q \in files : WalkRank[p] <= WalkRank[q]
         IN  << first >> \o WalkOrder(files \ {first})

-----------------------------------------------------------------------------
(* The record of an operation *)

\* No staged file fails: the fault argument of a Commit that meets no I/O error.
NoFail == [ at |-> "", created |-> {}, full |-> {}, mkdir |-> FALSE ]

NoHashes == [p \in {} |-> {}]

\* What an operation keeps of the operation before it: GetMeta, the SetMeta it
\* follows; Commit, the result of the Commit it repeats.
NoPrev == [ op |-> "none", name |-> "", data |-> 0, ret |-> "" ]

\* What a Commit that met no I/O error would have returned and published: kept
\* by a Commit whose publish phase met one.
NoWould == [ ret |-> "", repo |-> NoFiles ]

\* The record of an operation other than Commit.
Op(op, name, data, ret, out) ==
    [ op |-> op, name |-> name, data |-> data,
      consistentSnapshot |-> FALSE, hashes |-> NoHashes,
      fail |-> NoFail, stuck |-> {},
      ret |-> ret, out |-> out, phase |-> 0,
      wrote |-> {}, attempted |-> {}, removed |-> {},
      prev |-> NoPrev, would |-> NoWould ]

-----------------------------------------------------------------------------
(* Directories *)

\* createDirs: MkdirAll of keys, repository and staged/targets.
createDirs ==
    /\ keysDir' = TRUE
    /\ repoDir' = TRUE
    /\ stagedDir' = TRUE

-----------------------------------------------------------------------------
(* Metadata *)

\* GetMetaResult with a plausible bug: the published file is looked up first.
GetMetaResult_publishedFirst ==
    LET known == {topLevelManifests[i] : i \in DOMAIN topLevelManifests}
        notExistsStaged(name) == ~stagedDir \/ name \notin DOMAIN staged
        notExistsRepo(name) == ~repoDir \/ name \notin DOMAIN repo
        found == {name \in known : ~(notExistsStaged(name) /\ notExistsRepo(name))}
    IN  [name \in found |->
            IF notExistsRepo(name) THEN staged[name] ELSE repo[name]]

\* What fileSystemStore.GetMeta returns: for each top-level manifest, the
\* staged file if there is one, else the published file, else nothing.
GetMetaResult ==
    LET known == {topLevelManifests[i] : i \in DOMAIN topLevelManifests}
        notExistsStaged(name) == ~stagedDir \/ name \notin DOMAIN staged
        notExistsRepo(name) == ~repoDir \/ name \notin DOMAIN repo
        found == {name \in known : ~(notExistsStaged(name) /\ notExistsRepo(name))}
    IN  [name \in found |->
            IF notExistsStaged(name) THEN repo[name] ELSE staged[name]]

GetMeta ==
    /\ last' = [Op("GetMeta", "", 0, "ok", GetMetaResult) EXCEPT
                    !.prev = IF last.op = "SetMeta"
                             THEN [op |-> last.op, name |-> last.name,
                                   data |-> last.data, ret |-> last.ret]
                             ELSE NoPrev]
    /\ UNCHANGED <<staged, stagedDir, repo, repoDir, keys, keysDir, scope, faults>>

\* fileSystemStore.SetMeta: createDirs, then write staged/<name>.
SetMeta(name, meta) ==
    /\ createDirs
    /\ staged' = Put(staged, name, meta)
    /\ last' = Op("SetMeta", name, meta, "ok", 0)
    /\ UNCHANGED <<repo, keys, scope, faults>>

\* The caller stages a target by writing staged/targets/<path> itself; the
\* directory has to be there.
StageTarget(path, content) ==
    /\ stagedDir
    /\ staged' = Put(staged, TargetPath(path), content)
    /\ last' = Op("StageTarget", path, content, "ok", 0)
    /\ UNCHANGED <<stagedDir, repo, repoDir, keys, keysDir, scope, faults>>

\* GetStagedTarget with a plausible bug: the "targets" element of the path is
\* left out.
GetStagedTarget_noTargetsDir(path) ==
    LET found == stagedDir /\ path \in DOMAIN staged
    IN  /\ last' = Op("GetStagedTarget", path, 0,
                      IF found THEN "ok" ELSE "ErrFileNotFound",
                      IF found THEN staged[path] ELSE 0)
        /\ UNCHANGED <<staged, stagedDir, repo, repoDir, keys, keysDir, scope, faults>>

\* fileSystemStore.GetStagedTarget: the staged bytes, or ErrFileNotFound.
GetStagedTarget(path) ==
    LET full == Join(targetsDirName, path)
        found == stagedDir /\ full \in DOMAIN staged
    IN  /\ last' = Op("GetStagedTarget", path, 0,
                      IF found THEN "ok" ELSE "ErrFileNotFound",
                      IF found THEN staged[full] ELSE 0)
        /\ UNCHANGED <<staged, stagedDir, repo, repoDir, keys, keysDir, scope, faults>>

\* Clean with a plausible bug: only staged/targets is removed and made anew.
Clean_targetsOnly ==
    /\ staged' = [p \in {q \in DOMAIN staged : ~HasPrefix(q, "targets/")} |->
                    staged[p]]
    /\ stagedDir' = TRUE
    /\ last' = [Op("Clean", "", 0, "ok", 0) EXCEPT
                    !.removed = {q \in DOMAIN staged : HasPrefix(q, "targets/")}]
    /\ UNCHANGED <<repo, repoDir, keys, keysDir, scope, faults>>

\* Clean with a plausible bug: the store's directory is removed, not staged.
Clean_storeDir ==
    /\ staged' = NoFiles
    /\ stagedDir' = TRUE
    /\ repo' = NoFiles
    /\ repoDir' = FALSE
    /\ keys' = NoFiles
    /\ keysDir' = FALSE
    /\ last' = [Op("Clean", "", 0, "ok", 0) EXCEPT !.removed = DOMAIN staged]
    /\ UNCHANGED <<scope, faults>>

\* fileSystemStore.Clean: RemoveAll(staged), MkdirAll(staged/targets).
Clean ==
    /\ staged' = NoFiles
    /\ stagedDir' = TRUE
    /\ last' = [Op("Clean", "", 0, "ok", 0) EXCEPT !.removed = DOMAIN staged]
    /\ UNCHANGED <<repo, repoDir, keys, keysDir, scope, faults>>

-----------------------------------------------------------------------------
(* Commit, phase 1: publish *)

\* shouldCopyHashed with a plausible bug: the snapshot flag is not consulted.
shouldCopyHashed_always(consistentSnapshot, path) == path # timestamp_json

shouldCopyHashed(consistentSnapshot, path) ==
    consistentSnapshot /\ path # timestamp_json

\* shouldCopyUnhashed with a plausible bug: timestamp.json is forgotten.
shouldCopyUnhashed_rootOnly(consistentSnapshot, path) ==
    ~consistentSnapshot \/ path = root_json

shouldCopyUnhashed(consistentSnapshot, path) ==
    ~consistentSnapshot \/ path = root_json \/ path = timestamp_json

\* hashedPaths: one hashed path for each hash of the path.
hashedPaths(path, hashes) == {HashedPath[<< path, h >>] : h \in hashes}

\* hashes[rel] of a Go map: no hashes when rel is not a key.
HashesAt(hashes, rel) == IF rel \in DOMAIN hashes THEN hashes[rel] ELSE {}

\* The destinations copyToRepo computes for the staged file rel: the hashed
\* paths (in the order of Go's map iteration, which is unspecified), then rel.
destPaths(consistentSnapshot, hashes, rel) ==
    (IF shouldCopyHashed(consistentSnapshot, rel)
     THEN hashedPaths(rel, HashesAt(hashes, rel)) ELSE {})
    \cup
    (IF shouldCopyUnhashed(consistentSnapshot, rel) THEN {rel} ELSE {})

\* The ways copyToRepo can meet an I/O error on the staged file rel.  The
\* destinations are created one by one, the plain one last, and os.Create
\* truncates; then the staged file is opened and its bytes go to the writers
\* in the same order.  created: the destinations os.Create succeeded on; full:
\* those that received the bytes; mkdir: whether repository/ was made.
FailuresAt(consistentSnapshot, hashes, rel) ==
    LET paths == destPaths(consistentSnapshot, hashes, rel)
        early == SUBSET (paths \ {rel})
    IN  \* createRepoFile fails: MkdirAll or os.Create on some destination
        { f \in [ at : {rel}, created : early \ {paths}, full : {{}},
                  mkdir : BOOLEAN ] : f.created = {} \/ f.mkdir }
        \cup
        \* os.Open(staged file) or io.Copy fails: every destination is created,
        \* and the writers before the failing one have the bytes
        [ at : {rel}, created : {paths}, full : early \cup {paths},
          mkdir : {paths # {}} ]

\* writeFiles with a plausible bug: a destination that exists already is
\* opened as it is, and keeps its bytes.
writeFiles_keepExisting(st, rel, content, created, full, mkdir, err) ==
    [ repo |-> [p \in DOMAIN st.repo \cup created |->
                    IF p \in DOMAIN st.repo THEN st.repo[p]
                    ELSE IF p \in full THEN content
                    ELSE 0],
      repoDir |-> st.repoDir \/ mkdir,
      wrote |-> st.wrote \cup {<< rel, p >> : p \in created},
      err |-> err ]

\* The effect of copyToRepo's createRepoFile calls and of its io.Copy:
\* the destinations of created exist, those of full hold the staged bytes and
\* the others are left truncated.
writeFiles(st, rel, content, created, full, mkdir, err) ==
    [ repo |-> [p \in DOMAIN st.repo \cup created |->
                    IF p \in full THEN content
                    ELSE IF p \in created THEN 0
                    ELSE st.repo[p]],
      repoDir |-> st.repoDir \/ mkdir,
      wrote |-> st.wrote \cup {<< rel, p >> : p \in created},
      err |-> err ]

\* copyAll with a plausible bug: of several destinations only the last
\* created one, the plain one, gets the bytes.
copyAll_lastOnly(st, rel, content, paths) ==
    writeFiles(st, rel, content, paths,
               IF rel \in paths THEN {rel} ELSE paths, paths # {}, FALSE)

\* copyToRepo without an I/O error: every destination gets the bytes.
copyAll(st, rel, content, paths) ==
    writeFiles(st, rel, content, paths, paths, paths # {}, FALSE)

\* copyToRepo on the regular file rel of the staged tree.
\* st: [repo, repoDir, wrote, err], the walk so far.
copyToRepo(st, rel, content, consistentSnapshot, hashes, fail) ==
    IF fail.at = rel
    THEN writeFiles(st, rel, content, fail.created, fail.full, fail.mkdir, TRUE)
    ELSE copyAll(st, rel, content, destPaths(consistentSnapshot, hashes, rel))

\* filepath.Walk(stagedDir, copyToRepo) over the regular files, in Walk's
\* order; after an error no further file is visited.
RECURSIVE walkStaged(_, _, _, _, _, _)
walkStaged(files, tree, st, consistentSnapshot, hashes, fail) ==
    IF files = << >> THEN st
    ELSE IF st.err THEN st
    ELSE walkStaged(Tail(files), tree,
                    copyToRepo(st, Head(files), tree[Head(files)],
                               consistentSnapshot, hashes, fail),
                    consistentSnapshot, hashes, fail)

-----------------------------------------------------------------------------
(* Commit, phase 2: garbage collection *)

isTarget(path) == HasPrefix(path, targetsDirName)

\* isTarget, tabulated.
IsTarget == [p \in AllPaths |-> isTarget(p)] @@ NoFiles

\* Lines 206-210 of needsRemoval, "strip out the hash": the file name is split
\* at its first "."; split tells whether there is a second part, rest is that
\* part and path the path with rest as its file name.
stripHash(path) ==
    LET name == SplitN2(Base(path), ".")
    IN  IF Len(name) < 2 THEN [ split |-> FALSE, rest |-> "", path |-> "" ]
        ELSE [ split |-> TRUE, rest |-> name[2],
               path |-> Join(Dir(path), name[2]) ]

\* stripHash, tabulated.
StripHash == [p \in AllPaths |-> stripHash(p)] @@ NoFiles

\* needsRemoval: "remove", "keep", or "panic" where the code indexes name[1]
\* of a one-element slice (a file name without ".").
needsRemoval(consistentSnapshot, hashes, path) ==
    IF consistentSnapshot
    THEN IF ~StripHash[path].split THEN "panic"
         ELSE IF StripHash[path].rest = "" THEN "keep"
         ELSE IF StripHash[path].path \in DOMAIN hashes THEN "keep"
         ELSE "remove"
    ELSE IF path \in DOMAIN hashes THEN "keep" ELSE "remove"

\* removeFile on the regular file rel of the repository tree.
\* st: [repo, attempted, removed, panic], the walk so far; os.Remove fails on
\* the files of stuck, and its error is dropped.
removeFile(st, rel, consistentSnapshot, hashes, stuck) ==
    IF ~IsTarget[rel] THEN st
    ELSE CASE needsRemoval(consistentSnapshot, hashes, rel) = "panic" ->
                [st EXCEPT !.panic = TRUE]
           [] needsRemoval(consistentSnapshot, hashes, rel) = "keep" -> st
           [] OTHER ->
                [ repo |-> IF rel \in stuck THEN st.repo ELSE Drop(st.repo, {rel}),
                  attempted |-> st.attempted \cup {rel},
                  removed |-> IF rel \in stuck THEN st.removed
                              ELSE st.removed \cup {rel},
                  panic |-> FALSE ]

\* walkRepo with a plausible bug: the walk ends after its first file.
walkRepo_first(files, st, consistentSnapshot, hashes, stuck) ==
    IF files = << >> THEN st
    ELSE removeFile(st, Head(files), consistentSnapshot, hashes, stuck)

\* filepath.Walk(repoDir, removeFile) over the regular files, in Walk's order;
\* a panic ends it.
RECURSIVE walkRepo(_, _, _, _, _)
walkRepo(files, st, consistentSnapshot, hashes, stuck) ==
    IF files = << >> THEN st
    ELSE IF st.panic THEN st
    ELSE walkRepo(Tail(files),
                  removeFile(st, Head(files), consistentSnapshot, hashes, stuck),
                  consistentSnapshot, hashes, stuck)

-----------------------------------------------------------------------------
(* Commit *)

\* The outcome of a Commit: the trees it leaves, what it returns ("error",
\* "panic" or "ok"), the phase it reached, and what it did.
Outcome(newStaged, newStagedDir, newRepo, newRepoDir, ret, phase, wrote, attempted, removed) ==
    [ staged |-> newStaged, stagedDir |-> newStagedDir,
      repo |-> newRepo, repoDir |-> newRepoDir,
      ret |-> ret, phase |-> phase,
      wrote |-> wrote, attempted |-> attempted, removed |-> removed ]

\* cleanUp with a plausible bug: the final Clean is left out.
cleanUp_keepStaged(published, collected) ==
    Outcome(staged, stagedDir, collected.repo, TRUE,
            IF collected.panic THEN "panic" ELSE "ok",
            IF collected.panic THEN 2 ELSE 3,
            published.wrote, collected.attempted, collected.removed)

\* Lines 234-237, given the two walks: a panic in needsRemoval leaves Commit
\* at once; else Clean empties the staged tree.
cleanUp(published, collected) ==
    IF collected.panic
    THEN Outcome(staged, stagedDir, collected.repo, TRUE, "panic", 2,
                 published.wrote, collected.attempted, collected.removed)
    ELSE Outcome(NoFiles, TRUE, collected.repo, TRUE, "ok", 3,
                 published.wrote, collected.attempted, collected.removed)

\* collect with a plausible bug: the error of the publish walk is not
\* returned, and Commit goes on.
collect_ignoreError(published, consistentSnapshot, hashes, stuck) ==
    cleanUp(published,
            walkRepo(WalkOrder(DOMAIN published.repo),
                     [ repo |-> published.repo, attempted |-> {},
                       removed |-> {}, panic |-> FALSE ],
                     consistentSnapshot, hashes, stuck))

\* Lines 231-237, given the publish walk: its error is returned; else the
\* repository is walked, which fails when the directory does not exist.
collect(published, consistentSnapshot, hashes, stuck) ==
    IF published.err
    THEN Outcome(staged, stagedDir, published.repo, published.repoDir,
                 "error", 1, published.wrote, {}, {})
    ELSE IF ~published.repoDir
    THEN Outcome(staged, stagedDir, published.repo, published.repoDir,
                 "error", 2, published.wrote, {}, {})
    ELSE cleanUp(published,
                 walkRepo(WalkOrder(DOMAIN published.repo),
                          [ repo |-> published.repo, attempted |-> {},
                            removed |-> {}, panic |-> FALSE ],
                          consistentSnapshot, hashes, stuck))

\* What fileSystemStore.Commit does to the store, and what it returns.  The
\* walk of a staged directory that does not exist fails at once.
CommitOutcome(consistentSnapshot, hashes, fail, stuck) ==
    IF ~stagedDir
    THEN Outcome(staged, stagedDir, repo, repoDir, "error", 1, {}, {}, {})
    ELSE collect(walkStaged(WalkOrder(DOMAIN staged), staged,
                            [ repo |-> repo, repoDir |-> repoDir,
                              wrote |-> {}, err |-> FALSE ],
                            consistentSnapshot, hashes, fail),
                 consistentSnapshot, hashes, stuck)

\* The outcome of the same Commit meeting no I/O error.
Would(consistentSnapshot, hashes, fail) ==
    IF fail = NoFail THEN NoWould
    ELSE [ ret |-> CommitOutcome(consistentSnapshot, hashes, NoFail, {}).ret,
           repo |-> CommitOutcome(consistentSnapshot, hashes, NoFail, {}).repo ]

Commit(consistentSnapshot, hashes, fail, stuck) ==
    \E r \in {CommitOutcome(consistentSnapshot, hashes, fail, stuck)} :
        /\ staged' = r.staged
        /\ stagedDir' = r.stagedDir
        /\ repo' = r.repo
        /\ repoDir' = r.repoDir
        /\ last' = [ Op("Commit", "", 0, r.ret, 0) EXCEPT
                        !.consistentSnapshot = consistentSnapshot,
                        !.hashes = hashes, !.fail = fail, !.stuck = stuck,
                        !.phase = r.phase, !.wrote = r.wrote,
                        !.attempted = r.attempted, !.removed = r.removed,
                        !.prev = IF /\ last.op = "Commit"
                                    /\ last.consistentSnapshot = consistentSnapshot
                                    /\ last.hashes = hashes
                                 THEN [op |-> last.op, name |-> "", data |-> 0,
                                       ret |-> last.ret]
                                 ELSE NoPrev,
                        !.would = Would(consistentSnapshot, hashes, fail) ]
        /\ faults' = IF fail = NoFail /\ stuck = {} THEN faults ELSE faults + 1
        /\ UNCHANGED <<keys, keysDir, scope>>

-----------------------------------------------------------------------------
(* Keys *)

\* The file SaveKey writes for a key: <role>-<key ID>.json
KeyFile(role, key) == role \o "-" \o key \o ".json"

\* json.MarshalIndent of a key, and json's Decode of a key file.
EncodeKey(key) == << "json", key >>
DecodeKey(bytes) == bytes[2]

\* ioutil.ReadDir: the names of a directory, sorted.
RECURSIVE ReadDir(_)
ReadDir(names) ==
    IF names = {} THEN << >>
    ELSE LET first == CHOOSE n \in names : \A m \in names \ {n} : StrLess(n, m)
         IN  << first >> \o ReadDir(names \ {first})

\* SelectSeq with an operator argument that uses a parameter.
RECURSIVE keysOf(_, _)
keysOf(files, role) ==
    IF files = << >> THEN << >>
    ELSE (IF HasPrefix(Head(files), role)
          THEN << DecodeKey(keys[Head(files)]) >> ELSE << >>)
         \o keysOf(Tail(files), role)

\* What fileSystemStore.GetKeys returns: no keys when keys/ does not exist,
\* else the key of every file of keys/ whose name starts with the role.
GetKeysResult(role) ==
    IF ~keysDir THEN << >> ELSE keysOf(ReadDir(DOMAIN keys), role)

GetKeys(role) ==
    /\ last' = Op("GetKeys", role, 0, "ok", GetKeysResult(role))
    /\ UNCHANGED <<staged, stagedDir, repo, repoDir, keys, keysDir, scope, faults>>

\* fileSystemStore.SaveKey: createDirs, then write keys/<role>-<ID>.json.
SaveKey(role, key) ==
    /\ createDirs
    /\ keys' = Put(keys, KeyFile(role, key), EncodeKey(key))
    /\ last' = Op("SaveKey", role, key, "ok", 0)
    /\ UNCHANGED <<staged, repo, scope, faults>>

-----------------------------------------------------------------------------
(* The store and its callers *)

\* What one run works with: at most MaxScope file names, key entries, and
\* hash values and contents beyond the first.
Scopes ==
    { s \in [ names : SUBSET Names, keys : SUBSET KeyEntries,
              hashVals : {{H1}, HashVals},
              data : {1 .. k : k \in Data} ] :
        Cardinality(s.names) + Cardinality(s.keys)
            + (Cardinality(s.hashVals) - 1)
            + (Cardinality(s.data) - 1) <= MaxScope }

\* The hash sets a caller passes to Commit: some of the names, each with one
\* or more hash values.
HashSets ==
    UNION { [keyed -> (SUBSET scope.hashVals) \ {{}}] : keyed \in SUBSET scope.names }

\* FileSystemStore(dir) on a directory that holds nothing yet.
Init ==
    /\ scope \in Scopes
    /\ staged = NoFiles
    /\ stagedDir = FALSE
    /\ repo = NoFiles
    /\ repoDir = FALSE
    /\ keys = NoFiles
    /\ keysDir = FALSE
    /\ faults = 0
    /\ last = Op("init", "", 0, "ok", 0)

\* The operations of the store, none of them meeting an I/O error.
Next ==
    \/ \E name \in scope.names \cap MetaNames, meta \in scope.data : SetMeta(name, meta)
    \/ \E t \in TargetNames, content \in scope.data :
            TargetPath(t) \in scope.names /\ StageTarget(t, content)
    \/ GetMeta
    \/ \E t \in TargetNames : TargetPath(t) \in scope.names /\ GetStagedTarget(t)
    \/ \E consistentSnapshot \in BOOLEAN, hashes \in HashSets :
            Commit(consistentSnapshot, hashes, NoFail, {})
    \/ Clean
    \/ \E k \in scope.keys : SaveKey(k[1], k[2])
    \/ \E role \in Roles : scope.keys # {} /\ GetKeys(role)

Spec == Init /\ [][Next]_vars

\* The files os.Remove is called on by a Commit, each of which it can fail on.
Removable(consistentSnapshot, hashes) ==
    { p \in DOMAIN repo
            \cup { rel \in DOMAIN staged :
                     shouldCopyUnhashed(consistentSnapshot, rel) } :
        IsTarget[p] /\ needsRemoval(consistentSnapshot, hashes, p) = "remove" }

\* The I/O errors a Commit can meet: none; or one in copyToRepo, on one staged
\* file, which ends the Commit; or os.Remove failing on some of the files it
\* is called on.
Faults(consistentSnapshot, hashes) ==
    IF faults >= MaxFaults THEN {<< NoFail, {} >>}
    ELSE ((UNION { FailuresAt(consistentSnapshot, hashes, rel) :
                     rel \in DOMAIN staged }) \X {{}})
         \cup
         ({NoFail} \X SUBSET Removable(consistentSnapshot, hashes))

\* The operations that write the staged and the repository tree, Commit
\* meeting I/O errors.
NextFaults ==
    \/ \E name \in scope.names \cap MetaNames, meta \in scope.data :
            SetMeta(name, meta)
    \/ \E t \in TargetNames, content \in scope.data :
            TargetPath(t) \in scope.names /\ StageTarget(t, content)
    \/ \E consistentSnapshot \in BOOLEAN, hashes \in HashSets :
            \E f \in Faults(consistentSnapshot, hashes) :
                Commit(consistentSnapshot, hashes, f[1], f[2])
    \/ Clean

\* The store with no key in scope.
InitFaults == Init /\ scope.keys = {}

SpecFaults == InitFaults /\ [][NextFaults]_vars

-----------------------------------------------------------------------------
(* Properties *)

\* The destinations the last Commit created for the staged file rel.
WrittenFor(rel) == { w[2] : w \in { x \in last.wrote : x[1] = rel } }

\* <dir>/<hash-value>.<filename>, the sibling path of a hashed copy.
Sibling(path, hash) ==
    IF Dir(path) = "." THEN hash \o "." \o Base(path)
    ELSE Dir(path) \o "/" \o hash \o "." \o Base(path)

\* Whether a path lies under the targets directory of a tree.
UnderTargets(path) == HasPrefix(path, "targets/")

\* C1: in the state right after a Commit that returns success, the staged
\* area holds no file and consists of an empty targets directory, whatever
\* was staged and whatever the snapshot flag and the hash set were.
StagingEmptyAfterCommit ==
    last.op = "Commit" /\ last.ret = "ok" => staged = NoFiles /\ stagedDir

\* A successful snapshot-mode Commit that published staged files.
StagingEmptyAfterCommit_Witness ==
    /\ last.op = "Commit" /\ last.ret = "ok"
    /\ last.consistentSnapshot
    /\ last.wrote # {}
    /\ staged = NoFiles

\* C2: a successful Commit, in either mode and for any hash set, leaves each
\* of root.json and timestamp.json that was staged in the repository under its
\* plain name with exactly the staged bytes.
RootAndTimestampPublishedPlain ==
    [][ last'.op = "Commit" /\ last'.ret = "ok" =>
            \A name \in {"root.json", "timestamp.json"} \cap DOMAIN staged :
                name \in DOMAIN repo' /\ repo'[name] = staged[name] ]_vars

\* A snapshot-mode Commit with an empty hash set has published both manifests.
RootAndTimestampPublishedPlain_Witness ==
    /\ last.op = "Commit" /\ last.ret = "ok"
    /\ last.consistentSnapshot
    /\ last.hashes = NoHashes
    /\ {<< "root.json", "root.json" >>,
        << "timestamp.json", "timestamp.json" >>} \subseteq last.wrote
    /\ {"root.json", "timestamp.json"} \subseteq DOMAIN repo

\* C3: a snapshot-mode Commit writes every staged file other than root.json
\* and timestamp.json only at the sibling paths <dir>/<hash>.<filename>, one
\* for each hash registered for its path, each with the staged bytes, and
\* never at its plain path; without an entry in the hash set it is written
\* nowhere.  With the hash set {targets/foo.txt: [0a]}, after a Commit that
\* returns the repository holds targets/0a.foo.txt and no targets/foo.txt.
SnapshotPublishesOnlyHashed ==
    [][ last'.op = "Commit" /\ last'.consistentSnapshot /\ stagedDir =>
            /\ \A rel \in DOMAIN staged \ {"root.json", "timestamp.json"} :
                    /\ { w[2] : w \in { x \in last'.wrote : x[1] = rel } }
                         = { Sibling(rel, h) : h \in HashesAt(last'.hashes, rel) }
                    /\ \A h \in HashesAt(last'.hashes, rel) :
                            /\ Sibling(rel, h) \in DOMAIN repo'
                            /\ repo'[Sibling(rel, h)] = staged[rel]
            /\ ( /\ last'.ret = "ok"
                 /\ "targets/foo.txt" \in DOMAIN staged
                 /\ last'.hashes = [p \in {"targets/foo.txt"} |-> {"0a"}]
                 => /\ "targets/0a.foo.txt" \in DOMAIN repo'
                    /\ repo'["targets/0a.foo.txt"] = staged["targets/foo.txt"]
                    /\ "targets/foo.txt" \notin DOMAIN repo' ) ]_vars

\* The example of C3, the plain targets/foo.txt of an earlier non-snapshot
\* Commit having been in the repository.
SnapshotPublishesOnlyHashed_Witness ==
    /\ last.op = "Commit" /\ last.ret = "ok"
    /\ last.consistentSnapshot
    /\ last.hashes = [p \in {"targets/foo.txt"} |-> {"0a"}]
    /\ WrittenFor("targets/foo.txt") = {"targets/0a.foo.txt"}
    /\ "targets/foo.txt" \in last.removed
    /\ "targets/0a.foo.txt" \in DOMAIN repo

Collected(path, hashes) == HasPrefix(path, "targets") /\ path \notin DOMAIN hashes

LogicalPath(consistentSnapshot, path) ==
    IF consistentSnapshot
          /\ \E h \in HashVals : HasPrefix(Base(path), h \o ".")
    THEN Join(Dir(path), SplitN2(Base(path), ".")[2])
    ELSE path

\* C5: after a successful Commit no file remains under the repository's
\* targets directory whose logical path is absent from the hash set of that
\* Commit.
NoStaleTargetAfterCommit ==
    last.op = "Commit" /\ last.ret = "ok" =>
        \A p \in DOMAIN repo :
            UnderTargets(p) =>
                LogicalPath(last.consistentSnapshot, p) \in DOMAIN last.hashes

\* A Commit removed a target that an earlier Commit had published.
NoStaleTargetAfterCommit_Witness ==
    /\ last.op = "Commit" /\ last.ret = "ok"
    /\ last.removed # {}
    /\ last.wrote = {}

\* C6, as stated: for any name, GetMeta right after SetMeta(name, b) yields b
\* for name.
SetMetaThenGetMeta ==
    last.op = "GetMeta" /\ last.prev.op = "SetMeta" =>
        /\ last.prev.name \in DOMAIN last.out
        /\ last.out[last.prev.name] = last.prev.data

\* The recognized top-level manifest names.
TopLevel == {topLevelManifests[i] : i \in DOMAIN topLevelManifests}

\* C6, amended: for any recognized top-level manifest name, GetMeta right
\* after SetMeta(name, b) yields b for name; GetMeta yields, for each of these
\* names, the staged file if there is one, else the published one, and omits
\* the name that has neither, and it yields no other name.
SetMetaThenGetMetaTopLevel ==
    last.op = "GetMeta" =>
        /\ last.ret = "ok"
        /\ ( last.prev.op = "SetMeta" /\ last.prev.name \in TopLevel =>
                /\ last.prev.name \in DOMAIN last.out
                /\ last.out[last.prev.name] = last.prev.data )
        /\ DOMAIN last.out = TopLevel \cap (DOMAIN staged \cup DOMAIN repo)
        /\ \A name \in DOMAIN last.out :
                last.out[name] = IF name \in DOMAIN staged THEN staged[name]
                                 ELSE repo[name]

\* GetMeta right after SetMeta on a manifest whose published version holds
\* other bytes, another top-level manifest being absent from both trees.
SetMetaThenGetMetaTopLevel_Witness ==
    /\ last.op = "GetMeta" /\ last.prev.op = "SetMeta"
    /\ last.prev.name = "root.json"
    /\ "root.json" \in DOMAIN repo
    /\ repo["root.json"] # last.prev.data
    /\ "snapshot.json" \notin DOMAIN last.out

\* The keys saved under a role: SaveKey(role, key) leaves the file of
\* that role and key.
SavedUnder(role) == { key \in KeyIDs : KeyFile(role, key) \in DOMAIN keys }

\* C7: GetKeys(r) returns exactly the keys saved with role r, also when one
\* role name is a prefix of another.
GetKeysReturnsRoleKeys ==
    last.op = "GetKeys" =>
        /\ { last.out[i] : i \in DOMAIN last.out } = SavedUnder(last.name)
        /\ Len(last.out) = Cardinality(SavedUnder(last.name))

\* GetKeys("root") after a key was saved under root and another under rootx.
GetKeysReturnsRoleKeys_Witness ==
    /\ last.op = "GetKeys" /\ last.name = "root"
    /\ SavedUnder("root") # {} /\ SavedUnder("rootx") # {}

\* C8: a Commit whose publish phase meets an I/O error on a staged file
\* returns the error at once: it attempts no deletion and removes no published
\* file, it leaves the staged tree as it was, and the files published before
\* the failing one are in the repository with their staged bytes.
PublishErrorAborts ==
    [][ last'.op = "Commit" /\ last'.fail # NoFail =>
            /\ last'.ret = "error" /\ last'.phase = 1
            /\ last'.attempted = {} /\ last'.removed = {}
            /\ DOMAIN repo \subseteq DOMAIN repo'
            /\ staged' = staged /\ stagedDir' = stagedDir
            /\ \A rel \in DOMAIN staged :
                    WalkLess(rel, last'.fail.at) =>
                        /\ ( ~last'.consistentSnapshot =>
                                << rel, rel >> \in last'.wrote )
                        /\ \A w \in { x \in last'.wrote : x[1] = rel } :
                                /\ w[2] \in DOMAIN repo'
                                /\ repo'[w[2]] = staged[rel] ]_vars

\* A Commit failed on its second staged file, the first being published, with
\* a stale target in the repository that garbage collection would delete.
PublishErrorAborts_Witness ==
    /\ last.op = "Commit" /\ last.fail # NoFail
    /\ \E w \in last.wrote : w[1] # last.fail.at /\ w[2] \in DOMAIN repo
    /\ last.fail.at \in DOMAIN staged
    /\ \E p \in DOMAIN repo :
            /\ IsTarget[p]
            /\ needsRemoval(last.consistentSnapshot, last.hashes, p) = "remove"

\* C9: whenever the publish phase of a Commit succeeded, the Commit returns
\* success and the staged area is cleared as Clean does, whatever garbage
\* collection meets; a deletion that fails stops neither.
StagingClearedAfterPublish ==
    last.op = "Commit" /\ last.phase >= 2 =>
        /\ last.ret = "ok"
        /\ staged = NoFiles /\ stagedDir

\* A Commit whose publish phase succeeded and one of whose deletions failed,
\* another deletion being done.
StagingClearedAfterPublish_Witness ==
    /\ last.op = "Commit" /\ last.phase >= 2
    /\ last.stuck # {}
    /\ last.stuck \subseteq last.attempted
    /\ last.removed # {}

\* C10: on the state a successful Commit leaves, a Commit with the same flag
\* and hash set and nothing staged in between returns success and leaves the
\* repository tree, the keys and the empty staged area as they were (neither
\* Commit meeting an I/O error: a deletion that failed in the first is done by
\* the second).
CommitTwice ==
    [][ /\ last.op = "Commit" /\ last.ret = "ok"
        /\ last'.op = "Commit"
        /\ last'.consistentSnapshot = last.consistentSnapshot
        /\ last'.hashes = last.hashes
        => /\ last'.ret = "ok"
           /\ repo' = repo /\ repoDir' = repoDir
           /\ keys' = keys /\ keysDir' = keysDir
           /\ staged' = NoFiles /\ staged' = staged
           /\ stagedDir' /\ stagedDir' = stagedDir ]_vars

\* The second of two such Commits, in snapshot mode, the repository holding a
\* target that the hash set names.
CommitTwice_Witness ==
    /\ last.op = "Commit" /\ last.ret = "ok"
    /\ last.prev.op = "Commit" /\ last.prev.ret = "ok"
    /\ last.consistentSnapshot
    /\ last.hashes # NoHashes
    /\ \E p \in DOMAIN repo : UnderTargets(p)

\* C11: GetStagedTarget(p) returns ErrFileNotFound exactly when no target is
\* staged at p, and the staged bytes otherwise; so it returns ErrFileNotFound
\* for every p on an empty staged area, as a successful Commit and Clean leave
\* it, also for a p that was staged before.
GetStagedTargetFindsStaged ==
    last.op = "GetStagedTarget" =>
        /\ ( "targets/" \o last.name \in DOMAIN staged =>
                /\ last.ret = "ok"
                /\ last.out = staged["targets/" \o last.name] )
        /\ ( "targets/" \o last.name \notin DOMAIN staged =>
                last.ret = "ErrFileNotFound" )
        /\ ( staged = NoFiles => last.ret = "ErrFileNotFound" )

\* GetStagedTarget found nothing at a path whose target a Commit has published
\* and cleared from the staged area.
GetStagedTargetFindsStaged_Witness ==
    /\ last.op = "GetStagedTarget" /\ last.ret = "ErrFileNotFound"
    /\ "targets/" \o last.name \in DOMAIN repo
    /\ staged = NoFiles /\ stagedDir

\* C12: Clean discards everything staged and leaves the staged area as an
\* empty targets directory; it succeeds also when the staged area is empty or
\* does not exist; and it is idempotent: Clean on the state Clean leaves gives
\* that state again.
CleanEmptiesStaging ==
    last.op = "Clean" =>
        /\ last.ret = "ok"
        /\ staged = NoFiles /\ stagedDir
        /\ ENABLED ( /\ Clean
                     /\ last'.ret = "ok" /\ last'.removed = {}
                     /\ UNCHANGED <<staged, stagedDir, repo, repoDir,
                                    keys, keysDir>> )

\* Clean has discarded a staged manifest and a staged target.
CleanEmptiesStaging_Witness ==
    /\ last.op = "Clean"
    /\ \E p \in last.removed : HasPrefix(p, "targets/")
    /\ \E p \in last.removed : ~HasPrefix(p, "targets/")

\* C13: the garbage collection of a Commit deletes only files under the
\* repository's targets directory: a published file outside it, such as the
\* plain targets.json, is not deleted, whether or not the hash set names it.
CollectsOnlyUnderTargets ==
    last.op = "Commit" => \A p \in last.removed : UnderTargets(p)

\* A Commit deleted a stale target while targets.json, which its hash set
\* names, stayed published.
CollectsOnlyUnderTargets_Witness ==
    /\ last.op = "Commit" /\ last.ret = "ok"
    /\ \E p \in last.removed : UnderTargets(p)
    /\ "targets.json" \in DOMAIN repo

\* A published file under targets whose file name has no ".".
Dotless(path) == UnderTargets(path) /\ IndexOf(Base(path), ".") = 0

\* C14: a snapshot-mode Commit whose garbage collection meets a file under
\* targets with no "." in its name takes the path itself as the logical path:
\* the file is deleted if the hash set does not name it and kept otherwise,
\* and the Commit completes normally and clears the staged area.
SnapshotCollectsDotless ==
    [][ /\ last'.op = "Commit" /\ last'.consistentSnapshot
        /\ stagedDir
        /\ \E p \in DOMAIN repo : Dotless(p)
        => /\ last'.ret = "ok"
           /\ staged' = NoFiles /\ stagedDir'
           /\ \A p \in DOMAIN repo :
                Dotless(p) => (p \in DOMAIN repo' <=> p \in DOMAIN last'.hashes)
      ]_vars

\* A snapshot-mode Commit met targets/README in the repository.
SnapshotCollectsDotless_Witness ==
    /\ last.op = "Commit" /\ last.consistentSnapshot
    /\ last.phase >= 2
    /\ "targets/README" \in DOMAIN repo

SnapshotCopies(rel, hashes) ==
    (IF rel = "timestamp.json" THEN {}
     ELSE { Sibling(rel, h) : h \in HashesAt(hashes, rel) })
    \cup (IF rel \in {"root.json", "timestamp.json"} THEN {rel} ELSE {})

RetryHeals ==
    [][ /\ last.op = "Commit" /\ last.fail # NoFail
        /\ last'.op = "Commit"
        /\ last'.consistentSnapshot = last.consistentSnapshot
        /\ last'.hashes = last.hashes
        /\ last'.fail = NoFail /\ last'.stuck = {}
        /\ last'.ret = "ok"
        => /\ last.would.ret = "ok"
           /\ repo' = last.would.repo
           /\ repoDir'
           /\ staged' = NoFiles /\ stagedDir' ]_vars

\* The Commit that follows one that failed after it had created a file and
\* left it without its bytes; the file now holds them.
RetryHeals_Witness ==
    /\ last.op = "Commit" /\ last.ret = "ok"
    /\ last.prev.op = "Commit" /\ last.prev.ret = "error"
    /\ last.wrote # {}
    /\ faults = 1
    /\ \A w \in last.wrote : w[2] \in DOMAIN repo => repo[w[2]] # 0

\* C17: after a successful snapshot-mode Commit, the hashed files under the
\* repository's targets directory for a logical path are only those whose hash
\* prefix is a hash value that the hash set of this Commit registers for the
\* path; a copy with a superseded hash is gone.
NoSupersededCopies ==
    last.op = "Commit" /\ last.ret = "ok" /\ last.consistentSnapshot =>
        \A path \in Names, h \in HashVals :
            UnderTargets(path) /\ Sibling(path, h) \in DOMAIN repo =>
                h \in HashesAt(last.hashes, path)

\* A snapshot-mode Commit published a target under one hash value, which the
\* hash set registers, and deleted the copy of a target it no longer names.
NoSupersededCopies_Witness ==
    /\ last.op = "Commit" /\ last.ret = "ok" /\ last.consistentSnapshot
    /\ \E path \in DOMAIN last.hashes, h \in HashVals :
            << path, Sibling(path, h) >> \in last.wrote /\ UnderTargets(path)
    /\ \E path \in Names, h \in HashVals :
            UnderTargets(path) /\ Sibling(path, h) \in last.removed

\* The manifests of GetMeta's result before a step that are in its result,
\* with the same bytes, after the step.
KeptByStep == { name \in DOMAIN GetMetaResult : name \in DOMAIN GetMetaResult' /\ GetMetaResult'[name] = GetMetaResult[name] }

\* C18: a successful Commit does not change the effective metadata set: every
\* top-level manifest name GetMeta returned right before the Commit is
\* returned with the same bytes right after it, in snapshot mode or not.
CommitKeepsEffectiveMeta ==
    [][ last'.op = "Commit" /\ last'.ret = "ok"
        => DOMAIN GetMetaResult \subseteq KeptByStep ]_vars

\* C18, amended: a successful Commit keeps root.json and timestamp.json in
\* the effective metadata set with the bytes they had right before it, in
\* snapshot mode or not.
CommitKeepsRootAndTimestamp ==
    [][ last'.op = "Commit" /\ last'.ret = "ok"
        => DOMAIN GetMetaResult \cap {root_json, timestamp_json} \subseteq KeptByStep ]_vars

\* A successful snapshot-mode Commit published a staged root.json, with
\* timestamp.json published before and not staged.
CommitKeepsRootAndTimestamp_Witness ==
    /\ last.op = "Commit" /\ last.ret = "ok" /\ last.consistentSnapshot
    /\ << root_json, root_json >> \in last.wrote
    /\ timestamp_json \in DOMAIN repo
    /\ \A w \in last.wrote : w[1] # timestamp_json

\* C19: the repository tree changes only through Commit: every other
\* operation leaves each file of the repository tree as it was, and at most
\* creates the empty repository directory; Commit and Clean leave the key
\* store as it was.
RepoChangesOnlyThroughCommit ==
    [][ /\ ( last'.op # "Commit" => repo' = repo /\ (repoDir => repoDir') )
        /\ ( last'.op \in {"Commit", "Clean"} => keys' = keys /\ keysDir' = keysDir )
      ]_vars

\* Clean emptied a staging area that held files, in a store that has
\* published files and saved keys.
RepoChangesOnlyThroughCommit_Witness ==
    /\ last.op = "Clean" /\ last.removed # {}
    /\ repo # NoFiles
    /\ keys # NoFiles

=============================================================================
